---------------------------- MODULE Spec2Model ----------------------------
(***************************************************************************)
(* State-machine model of backend/server.py, the API of the 90-day         *)
(* challenge application.                                                  *)
(*                                                                         *)
(* The two MongoDB collections are sequences of documents in insertion     *)
(* order.  Every request handler is a coroutine: it runs without           *)
(* interruption from one `await` to the next, and other requests may run   *)
(* in between.  Each action below is one such segment: a database (or      *)
(* identity-provider) operation together with the local code that follows  *)
(* it up to the next awaited operation.  Time is counted in whole days.    *)
(***************************************************************************)
EXTENDS Integers, Sequences, FiniteSets, TLC

VARIABLES users, projects, now, nextUid, nextPid, req, firstAuth

\* users, projects: the two collections; now: the clock; nextUid, nextPid:
\* the user and project ids drawn so far; req: the requests in flight.
\* firstAuth is a history variable: for each email, the instant its first
\* login read from the clock (None before that).
vars == <<users, projects, now, nextUid, nextPid, req, firstAuth>>

-----------------------------------------------------------------------------
(* Bounds of the model *)

\* number of requests that can be in flight at the same time
NReq == 2
\* the clock stops at this day
MaxTime == 8
\* number of uuid4 values drawn for users
MaxUsers == 2
\* number of uuid4 values drawn for projects
MaxProjects == 2
\* the same, where requests interleave
MaxRacingProjects == 1
\* projects created beyond the cap of the lists
MaxOverCap == 1
\* the last day of the clock where the whole challenge is followed
MaxDay == 92

Reqs == 1..NReq


-----------------------------------------------------------------------------
(* Program constants *)

\* timedelta(days=7)
SessionDays == 7
\* the challenge window of the dashboard
ChallengeDays == 90
\* to_list(1000): the most documents a find or an aggregate returns
ListCap == 1000

\* the instants at which requests are observed after day 0: the last day of
\* a session opened on day 0 and the days after it
Instants == SessionDays..MaxTime

\* the days after the last day of a session opened on day 0
LateInstants == (SessionDays + 1)..MaxTime

-----------------------------------------------------------------------------
(* Values *)

\* Python's None for a string (and the empty string: both are falsy)
NoStr == ""
\* Optional[X]: None is the empty sequence, a value v is <<v>>
None == <<>>
Some(v) == <<v>>

NoUser == [id |-> 0]

\* the accounts of the identity provider
Emails == {"a@x", "b@x"}

\* values of the X-Session-ID header; NoStr is the absent header
SessionIds == {NoStr, "s1", "s2", "s3", "s404", "sjunk",
               "sNoEmail", "sNoName", "sNoToken"}

-----------------------------------------------------------------------------
(* The external identity provider (GET session-data) *)

FullPayload(e, n, p, t) ==
    [email |-> e, name |-> n, picture |-> p, session_token |-> t]

\* the JSON object the provider holds for a session id
ProviderBody(sid) ==
    CASE sid = "s1" -> FullPayload("a@x", "Ann", "pa", "t1")
      [] sid = "s2" -> FullPayload("a@x", "Ann", "pa", "t2")
      [] sid = "s3" -> FullPayload("b@x", "Bob", "pb", "t3")
      [] sid = "sNoEmail" -> [name |-> "Ann", picture |-> "pa", session_token |-> "t1"]
      [] sid = "sNoName" -> [email |-> "a@x", picture |-> "pa", session_token |-> "t1"]
      [] sid = "sNoToken" -> [email |-> "a@x", name |-> "Ann", picture |-> "pa"]
      [] OTHER -> [detail |-> "unknown session"]

\* what `await client.get(...)` can produce for a session id: an exception of
\* the HTTP client, or a response with a status and a body
ExchangeOutcomes(sid) ==
    {[kind |-> "raise", status |-> 0, parses |-> FALSE]}
    \cup
    (CASE sid = "s404" -> {[kind |-> "response", status |-> 404, parses |-> TRUE]}
       [] sid = "sjunk" -> {[kind |-> "response", status |-> 200, parses |-> FALSE]}
       [] OTHER -> {[kind |-> "response", status |-> 200, parses |-> TRUE]})

HasKey(d, k) == k \in DOMAIN d

-----------------------------------------------------------------------------
(* The persistence gateway: collections as sequences of documents *)

Min(S) == CHOOSE x \in S : \A y \in S : x <= y

\* the first of the indexes of the documents matching a filter, 0 when none does
FirstIndex(hits) == IF hits = {} THEN 0 ELSE Min(hits)

\* the removal of the document at i and of all that follow it
RemoveFrom(coll, i) == SubSeq(coll, 1, i - 1)

RemoveAt(coll, i) ==
    [j \in 1..(Len(coll) - 1) |-> IF j < i THEN coll[j] ELSE coll[j + 1]]

\* db.users.find_one({"session_token": token})
UserIndexByToken(token) ==
    FirstIndex({i \in 1..Len(users) : users[i].session_token = token})

\* db.users.find_one({"email": email})
UserIndexByEmail(email) ==
    FirstIndex({i \in 1..Len(users) : users[i].email = email})

\* db.users.delete_one({"id": id})
DeleteUserById(id) ==
    LET i == FirstIndex({j \in 1..Len(users) : users[j].id = id})
    IN  IF i = 0 THEN users ELSE RemoveAt(users, i)

\* db.users.update_one({"email": email}, {"$set": {session_token, expires_at}})
UpdateUserSession(email, token, expires) ==
    LET i == UserIndexByEmail(email)
    IN  IF i = 0 THEN users
        ELSE [users EXCEPT ![i] = [@ EXCEPT !.session_token = token,
                                            !.expires_at = expires]]

-----------------------------------------------------------------------------
(* Requests *)

NoCookie == <<"none", NoStr>>

\* the identity provider has not been called
NoOutcome == [kind |-> "none", status |-> 0, parses |-> FALSE]

\* kind, arg: the endpoint and its input; pc: the next segment; token: the
\* session token extracted; user: the user document get_current_user read;
\* tmp: the handler's other local variables; called, out: the call to the
\* identity provider; status, cookie, body: the response
IdleReq ==
    [kind |-> "none", pc |-> "idle", token |-> NoStr, user |-> NoUser,
     arg |-> <<>>, tmp |-> <<>>, called |-> FALSE, out |-> NoOutcome,
     status |-> 0, cookie |-> NoCookie, body |-> <<>>]

InFlight(r) == req[r].pc \notin {"idle", "done"}

\* every response has been delivered
NoneDone == \A r \in Reqs : req[r].pc # "done"

\* request slot r takes the next request: slots are interchangeable, and a
\* new request takes the lowest free one
Free(r) ==
    /\ NoneDone
    /\ req[r].pc = "idle"
    /\ \A o \in Reqs : o < r => InFlight(o)

\* request r is about to run the segment named pc
At(r, pc) == NoneDone /\ req[r].pc = pc

\* the response of a finished request
Respond(q, status, cookie, body) ==
    [q EXCEPT !.pc = "done", !.tmp = <<>>,
              !.status = status, !.cookie = cookie, !.body = body]

\* the public view of a user, returned by /auth/session and /auth/me
UserView(u) ==
    [id |-> u.id, email |-> u.email, name |-> u.name, picture |-> u.picture,
     challenge_start_date |-> u.challenge_start_date]

\* get_current_user: cookie first, then the Authorization header
ExtractToken(cookie, bearer) ==
    IF cookie # NoStr THEN cookie ELSE bearer

\* datetime.isoformat() and its inverse (datetime.fromisoformat, or pydantic's
\* parsing of the string): the stored form of a datetime is a string
Iso(t) == [iso |-> t]
FromIso(s) == s.iso

\* the same for an Optional[datetime]: None stays None
OptIso(o) == IF o = None THEN None ELSE Some(Iso(o[1]))
OptFromIso(o) == IF o = None THEN None ELSE Some(FromIso(o[1]))

\* prepare_for_mongo(user.model_dump())
UserToMongo(u) ==
    [u EXCEPT !.expires_at = Iso(@), !.created_at = Iso(@),
              !.challenge_start_date = OptIso(@)]

\* User(**user_data)
UserFromMongo(d) ==
    [d EXCEPT !.expires_at = FromIso(@), !.created_at = FromIso(@),
              !.challenge_start_date = OptFromIso(@)]

\* the expiry check a day late
ExpiredADayLate(u) == u.expires_at + 1 < now

\* user.expires_at < datetime.now(timezone.utc)
Expired(u) == u.expires_at < now

-----------------------------------------------------------------------------
(* Projects *)

\* the bodies of POST /projects (ProjectCreate)
FirstInput ==
    [title |-> "X", description |-> "d", tech_stack |-> <<"py", "js">>,
     deployed_link |-> None, github_link |-> Some("gh"), month |-> 1]

CreateInputs ==
    { FirstInput,
      [title |-> "Y", description |-> "d", tech_stack |-> <<>>,
       deployed_link |-> None, github_link |-> None, month |-> 5] }

NoPatch ==
    [title |-> None, description |-> None, tech_stack |-> None,
     deployed_link |-> None, github_link |-> None, status |-> None]

\* the bodies of PUT /projects/{id} (ProjectUpdate)
StatusPatch == [NoPatch EXCEPT !.status = Some("completed")]

UpdatePatches ==
    { NoPatch,
      StatusPatch,
      [NoPatch EXCEPT !.title = Some("Z"), !.tech_stack = Some(<<"go">>),
                      !.deployed_link = Some("http")],
      [NoPatch EXCEPT !.status = Some("in-progress")],
      [NoPatch EXCEPT !.status = Some("paused"), !.github_link = Some("g2")] }

PatchKeys == {"title", "description", "tech_stack", "deployed_link",
              "github_link", "status"}
OptionalKeys == {"deployed_link", "github_link"}

\* the Project with its tech_stack in reverse order
NewProjectReversed(id, uid, input, t) ==
    [id |-> id, user_id |-> uid, title |-> input.title,
     description |-> input.description,
     tech_stack |-> [i \in 1..Len(input.tech_stack) |->
                       input.tech_stack[Len(input.tech_stack) + 1 - i]],
     deployed_link |-> input.deployed_link, github_link |-> input.github_link,
     status |-> "planning", month |-> input.month,
     created_at |-> t, updated_at |-> t]

\* Project(user_id=user.id, **project_data.model_dump())
NewProject(id, uid, input, t) ==
    [id |-> id, user_id |-> uid, title |-> input.title,
     description |-> input.description, tech_stack |-> input.tech_stack,
     deployed_link |-> input.deployed_link, github_link |-> input.github_link,
     status |-> "planning", month |-> input.month,
     created_at |-> t, updated_at |-> t]

\* prepare_for_mongo(project.model_dump())
ProjectToMongo(p) ==
    [p EXCEPT !.created_at = Iso(@), !.updated_at = Iso(@)]

\* parse_from_mongo(project)
ParseFromMongo(d) ==
    [d EXCEPT !.created_at = FromIso(@), !.updated_at = FromIso(@)]

\* {k: v for k, v in update_data.model_dump().items() if v is not None}
\* together with updated_at: the keys of the $set document
UpdateKeys(patch) == {k \in PatchKeys : patch[k] # None}

\* a $set that carries the null links of the patch too
ApplySetWithNulls(d, patch, t) ==
    [k \in DOMAIN d |->
        IF k = "updated_at" THEN Iso(t)
        ELSE IF k \in OptionalKeys THEN patch[k]
        ELSE IF k \in UpdateKeys(patch) THEN patch[k][1]
        ELSE d[k]]

\* the document after {"$set": update_dict}
ApplySet(d, patch, t) ==
    [k \in DOMAIN d |->
        IF k = "updated_at" THEN Iso(t)
        ELSE IF k \in UpdateKeys(patch)
             THEN (IF k \in OptionalKeys THEN patch[k] ELSE patch[k][1])
             ELSE d[k]]

\* the lookup without the owner in its filter
AnyProjectIndex(pid, uid) ==
    FirstIndex({i \in 1..Len(projects) : projects[i].id = pid})

\* db.projects.find_one({"id": project_id, "user_id": user.id})
OwnedProjectIndex(pid, uid) ==
    FirstIndex({i \in 1..Len(projects) : projects[i].id = pid /\ projects[i].user_id = uid})

\* db.projects.find_one({"id": project_id})
ProjectIndexById(pid) ==
    FirstIndex({i \in 1..Len(projects) : projects[i].id = pid})

\* cursor.to_list(n): the first n documents of the cursor
ToList(s, n) == IF Len(s) <= n THEN s ELSE SubSeq(s, 1, n)

\* the find without its filter
AllProjects(uid) == ToList(projects, ListCap)

\* db.projects.find({"user_id": user.id}).to_list(1000)
ProjectsOf(uid) ==
    ToList(SelectSeq(projects, LAMBDA p : p.user_id = uid), ListCap)

\* for project in projects: parse_from_mongo(project)
ParseAll(ps) == [i \in 1..Len(ps) |-> ParseFromMongo(ps[i])]

-----------------------------------------------------------------------------
(* Initial state: both collections empty, no request in flight *)

Init ==
    /\ users = <<>>
    /\ projects = <<>>
    /\ now = 0
    /\ nextUid = 0
    /\ nextPid = 0
    /\ req = [r \in Reqs |-> IdleReq]
    /\ firstAuth = [e \in Emails |-> None]

\* the clock advances to one of the instants observed
Tick(instants) ==
    /\ NoneDone
    /\ \E t \in instants :
          /\ t > now
          /\ now' = t
    /\ UNCHANGED <<users, projects, nextUid, nextPid, req, firstAuth>>

-----------------------------------------------------------------------------
(* get_current_user and require_auth *)

Unauthenticated == [detail |-> "Authentication required"]
LoggedOut == [message |-> "Logged out successfully"]
ClearedCookie == <<"cleared", NoStr>>

\* the handler's code after get_current_user returned None
AfterNoUser(q) ==
    IF q.kind = "logout"
    THEN Respond(q, 200, ClearedCookie, LoggedOut)
    ELSE Respond(q, 401, NoCookie, Unauthenticated)

\* days_elapsed = 0; if user.challenge_start_date:
\*     days_elapsed = (datetime.now(timezone.utc) - user.challenge_start_date).days
DaysElapsed(u) ==
    IF u.challenge_start_date = None THEN 0
    ELSE now - u.challenge_start_date[1]

\* the handler's code after get_current_user returned user u, up to its
\* first database operation
AfterUser(q, u) ==
    CASE q.kind = "me" -> Respond([q EXCEPT !.user = u], 200, NoCookie, UserView(u))
      [] q.kind = "logout" -> [q EXCEPT !.pc = "logout_delete", !.user = u]
      [] q.kind = "create_project" ->
            [q EXCEPT !.pc = "project_insert", !.user = u,
                      !.tmp = NewProject(nextPid + 1, u.id, q.arg, now)]
      [] q.kind = "list" -> [q EXCEPT !.pc = "list_find", !.user = u]
      [] q.kind = "update" -> [q EXCEPT !.pc = "update_find", !.user = u]
      [] q.kind = "delete" -> [q EXCEPT !.pc = "delete_delete", !.user = u]
      [] q.kind = "dashboard" ->
            [q EXCEPT !.pc = "dashboard_find", !.user = u,
                      !.tmp = DaysElapsed(u)]

\* get_current_user up to and including db.users.find_one({"session_token":
\* session_token}) and the expiry check, then the handler's code that follows
Resolve(q) ==
    LET i == UserIndexByToken(q.token)
        u == UserFromMongo(users[i])
    IN  IF q.token = NoStr THEN AfterNoUser(q)
        ELSE IF i = 0 THEN AfterNoUser(q)
        ELSE IF Expired(u) THEN [q EXCEPT !.pc = "auth_delete", !.user = u]
        ELSE AfterUser(q, u)

\* the segment drew a uuid4 for a Project
DrawsPid(q) == q.pc = "project_insert"

\* the segment drew a uuid4 for a User
DrawsUid(q) == q.pc = "cs_insert"

\* A request to an endpoint that resolves the session arrives and runs to its
\* second database operation.  (What precedes the first one reads no shared
\* state, so it is joined to it.)
Begin(r, kind, arg, cookie, bearer, maxProjects) ==
    LET q == [IdleReq EXCEPT !.kind = kind, !.arg = arg,
                             !.token = ExtractToken(cookie, bearer)]
    IN  /\ Free(r)
        /\ DrawsPid(Resolve(q)) => nextPid < maxProjects
        /\ req' = [req EXCEPT ![r] = Resolve(q)]
        /\ nextPid' = IF DrawsPid(Resolve(q)) THEN nextPid + 1 ELSE nextPid
        /\ UNCHANGED <<users, projects, now, nextUid, firstAuth>>

\* <<cookie, bearer token>> of a request: none, one of them, or both
Credentials ==
    {<<NoStr, NoStr>>, <<"t1", NoStr>>, <<NoStr, "t1">>, <<"t2", "t1">>,
     <<NoStr, "t3">>, <<"tx", NoStr>>}

\* the credentials of two accounts, none, and a token never issued
TwoAccounts ==
    {<<NoStr, NoStr>>, <<"t1", NoStr>>, <<NoStr, "t3">>, <<"tx", NoStr>>}

\* the credentials of two accounts
TwoSessions == {<<"t1", NoStr>>, <<NoStr, "t3">>}

\* GET /auth/me
Me(r, creds) ==
    \E cr \in creds : Begin(r, "me", <<>>, cr[1], cr[2], 0)

\* POST /auth/logout
Logout(r, creds) ==
    \E cr \in creds : Begin(r, "logout", <<>>, cr[1], cr[2], 0)

\* POST /projects
CreateProject(r, creds, inputs, maxProjects) ==
    \E cr \in creds, input \in inputs :
        Begin(r, "create_project", input, cr[1], cr[2], maxProjects)

\* GET /projects
ListProjects(r, creds) ==
    \E cr \in creds : Begin(r, "list", <<>>, cr[1], cr[2], 0)

\* PUT /projects/{project_id}
UpdateProject(r, creds, pids, patches) ==
    \E cr \in creds, pid \in pids, patch \in patches :
        Begin(r, "update", [id |-> pid, patch |-> patch], cr[1], cr[2], 0)

\* DELETE /projects/{project_id}
DeleteProject(r, creds, pids) ==
    \E cr \in creds, pid \in pids :
        Begin(r, "delete", [id |-> pid], cr[1], cr[2], 0)

\* GET /dashboard
GetDashboard(r, creds) ==
    \E cr \in creds : Begin(r, "dashboard", <<>>, cr[1], cr[2], 0)

\* db.users.delete_one({"id": user.id}) of an expired session; returns None
AuthDelete(r) ==
    LET q == req[r]
    IN  /\ At(r, "auth_delete")
        /\ users' = DeleteUserById(q.user.id)
        /\ req' = [req EXCEPT ![r] = AfterNoUser(q)]
        /\ UNCHANGED <<projects, now, nextUid, nextPid, firstAuth>>

-----------------------------------------------------------------------------
(* POST /auth/session *)

SessionRequired == [detail |-> "Session ID required"]
AuthFailed == [detail |-> "Authentication failed"]
\* an exception no handler catches: the framework answers 500
ServerError == "Internal Server Error"

\* the try block without the check of the status code
ExchangeRaises(out) ==
    out.kind = "raise" \/ ~out.parses

\* the try block ends in the except clause
ExchangeFails(out) ==
    out.kind = "raise" \/ out.status # 200 \/ ~out.parses

\* User(email=..., name=..., picture=..., session_token=..., expires_at=...,
\*      challenge_start_date=...) of a first login
NewUser(id, data, t) ==
    [id |-> id, email |-> data.email, name |-> data.name,
     picture |-> data.picture, session_token |-> data.session_token,
     expires_at |-> t + SessionDays, created_at |-> t,
     challenge_start_date |-> Some(t)]

\* the branch on the result of db.users.find_one({"email": ...}), up to the
\* update or the insert
SessionFind(q, data) ==
    LET i == UserIndexByEmail(data.email)
    IN  IF i # 0
        THEN IF ~HasKey(data, "session_token")
             THEN Respond(q, 500, NoCookie, ServerError)
             ELSE [q EXCEPT !.pc = "cs_update",
                            !.tmp = [data |-> data, existing |-> users[i],
                                     expires_at |-> now + SessionDays]]
        ELSE IF \E k \in {"name", "picture", "session_token"} : ~HasKey(data, k)
        THEN Respond(q, 500, NoCookie, ServerError)
        ELSE [q EXCEPT !.pc = "cs_insert",
                       !.tmp = [data |-> data,
                                user |-> NewUser(nextUid + 1, data, now)]]

\* the try block with the outcome out of the call, up to the exit of
\* async with: the HTTPException of the except clause, if any, is pending
\* while the client is closed
Exchange(q, out) == [q EXCEPT !.out = out, !.pc = "cs_close"]

\* the client is closed: a pending HTTPException becomes the 401; otherwise
\* user_data["email"] is evaluated, outside the try block, up to the call of
\* find_one
LeaveClient(q) ==
    LET data == ProviderBody(q.arg)
    IN  IF ExchangeFails(q.out) THEN Respond(q, 401, NoCookie, AuthFailed)
        ELSE IF ~HasKey(data, "email") THEN Respond(q, 500, NoCookie, ServerError)
        ELSE [q EXCEPT !.pc = "cs_find", !.tmp = [data |-> data]]

\* A POST /auth/session request arrives: the header check, and the request
\* waits at await client.get(...)
CreateSession(r, sids) ==
    \E sid \in sids :
        LET q == [IdleReq EXCEPT !.kind = "create_session", !.arg = sid]
        IN  /\ Free(r)
            /\ req' = [req EXCEPT ![r] =
                         IF sid = NoStr
                         THEN Respond(q, 400, NoCookie, SessionRequired)
                         ELSE [q EXCEPT !.pc = "cs_exchange", !.called = TRUE]]
            /\ UNCHANGED <<users, projects, now, nextUid, nextPid, firstAuth>>

\* the identity provider answers, or the call fails; the request waits at
\* the close of the client (__aexit__ of httpx.AsyncClient)
SessionExchange(r) ==
    /\ At(r, "cs_exchange")
    /\ \E out \in ExchangeOutcomes(req[r].arg) :
          req' = [req EXCEPT ![r] = Exchange(req[r], out)]
    /\ UNCHANGED <<users, projects, now, nextUid, nextPid, firstAuth>>

\* the client is closed; the request is answered or waits at
\* await db.users.find_one(...)
SessionClose(r) ==
    /\ At(r, "cs_close")
    /\ req' = [req EXCEPT ![r] = LeaveClient(req[r])]
    /\ UNCHANGED <<users, projects, now, nextUid, nextPid, firstAuth>>

\* db.users.find_one({"email": user_data["email"]}) and what follows it up to
\* the next database operation
SessionLookup(r, maxUsers) ==
    LET q == req[r]
        next == SessionFind(q, q.tmp.data)
    IN  /\ At(r, "cs_find")
        /\ DrawsUid(next) => nextUid < maxUsers
        /\ req' = [req EXCEPT ![r] = next]
        /\ nextUid' = IF DrawsUid(next) THEN nextUid + 1 ELSE nextUid
        /\ UNCHANGED <<users, projects, now, nextPid, firstAuth>>

\* the steps of create_session before its write
SessionSteps(r, sids, maxUsers) ==
    \/ CreateSession(r, sids)
    \/ SessionExchange(r)
    \/ SessionClose(r)
    \/ SessionLookup(r, maxUsers)

SetCookie(token) == <<"set", token>>

\* db.users.update_one(...) of a returning user, the cookie and the response
SessionUpdate(r) ==
    LET q == req[r]
        data == q.tmp.data
        user == [UserFromMongo(q.tmp.existing) EXCEPT
                    !.session_token = data.session_token,
                    !.expires_at = q.tmp.expires_at]
    IN  /\ At(r, "cs_update")
        /\ users' = UpdateUserSession(data.email, data.session_token,
                                      Iso(q.tmp.expires_at))
        /\ req' = [req EXCEPT ![r] =
                     Respond([q EXCEPT !.user = user], 200,
                             SetCookie(data.session_token), UserView(user))]
        /\ UNCHANGED <<projects, now, nextUid, nextPid, firstAuth>>

\* db.users.insert_one(user_dict) of a first login, the cookie and the response
SessionInsert(r) ==
    LET q == req[r]
        user == q.tmp.user
    IN  /\ At(r, "cs_insert")
        /\ users' = Append(users, UserToMongo(user))
        /\ req' = [req EXCEPT ![r] =
                     Respond([q EXCEPT !.user = user], 200,
                             SetCookie(q.tmp.data.session_token), UserView(user))]
        /\ firstAuth' = IF firstAuth[user.email] = None
                        THEN [firstAuth EXCEPT ![user.email] = user.challenge_start_date]
                        ELSE firstAuth
        /\ UNCHANGED <<projects, now, nextUid, nextPid>>

-----------------------------------------------------------------------------
(* POST /auth/logout *)

\* db.users.delete_one({"id": user.id}), the cleared cookie and the response
LogoutDelete(r) ==
    LET q == req[r]
    IN  /\ At(r, "logout_delete")
        /\ users' = DeleteUserById(q.user.id)
        /\ req' = [req EXCEPT ![r] = Respond(q, 200, ClearedCookie, LoggedOut)]
        /\ UNCHANGED <<projects, now, nextUid, nextPid, firstAuth>>

-----------------------------------------------------------------------------
(* Project routes *)

NotFound == [detail |-> "Project not found"]
Deleted == [message |-> "Project deleted successfully"]

\* db.projects.insert_one(project_dict); the response is the Project built
\* before the insert
ProjectInsert(r) ==
    LET q == req[r]
    IN  /\ At(r, "project_insert")
        /\ projects' = Append(projects, ProjectToMongo(q.tmp))
        /\ req' = [req EXCEPT ![r] = Respond(q, 200, NoCookie, q.tmp)]
        /\ UNCHANGED <<users, now, nextUid, nextPid, firstAuth>>

\* db.projects.find({"user_id": user.id}) and the list of Project models
ListFind(r) ==
    LET q == req[r]
    IN  /\ At(r, "list_find")
        /\ req' = [req EXCEPT ![r] =
                     Respond(q, 200, NoCookie,
                             ParseAll(ProjectsOf(q.user.id)))]
        /\ UNCHANGED <<users, projects, now, nextUid, nextPid, firstAuth>>

\* the ownership lookup of update_project; update_dict gets its updated_at
UpdateFind(r) ==
    LET q == req[r]
        i == OwnedProjectIndex(q.arg.id, q.user.id)
    IN  /\ At(r, "update_find")
        /\ req' = [req EXCEPT ![r] =
                     IF i = 0 THEN Respond(q, 404, NoCookie, NotFound)
                     ELSE [q EXCEPT !.pc = "update_write", !.tmp = now]]
        /\ UNCHANGED <<users, projects, now, nextUid, nextPid, firstAuth>>

\* db.projects.update_one({"id": project_id}, {"$set": update_dict})
UpdateOneProject(pid, patch, t) ==
    LET i == ProjectIndexById(pid)
    IN  IF i = 0 THEN projects
        ELSE [projects EXCEPT ![i] = ApplySet(@, patch, t)]

UpdateWrite(r) ==
    LET q == req[r]
    IN  /\ At(r, "update_write")
        /\ projects' = UpdateOneProject(q.arg.id, q.arg.patch, q.tmp)
        /\ req' = [req EXCEPT ![r] = [q EXCEPT !.pc = "update_reread"]]
        /\ UNCHANGED <<users, now, nextUid, nextPid, firstAuth>>

\* db.projects.find_one({"id": project_id}) and Project(**updated_project);
\* Project(**None) raises a TypeError
UpdateReread(r) ==
    LET q == req[r]
        i == ProjectIndexById(q.arg.id)
    IN  /\ At(r, "update_reread")
        /\ req' = [req EXCEPT ![r] =
                     IF i = 0 THEN Respond(q, 500, NoCookie, ServerError)
                     ELSE Respond(q, 200, NoCookie, ParseFromMongo(projects[i]))]
        /\ UNCHANGED <<users, projects, now, nextUid, nextPid, firstAuth>>

\* db.projects.delete_one({"id": project_id, "user_id": user.id})
DeleteDelete(r) ==
    LET q == req[r]
        i == OwnedProjectIndex(q.arg.id, q.user.id)
    IN  /\ At(r, "delete_delete")
        /\ projects' = IF i = 0 THEN projects ELSE RemoveAt(projects, i)
        /\ req' = [req EXCEPT ![r] =
                     IF i = 0 THEN Respond(q, 404, NoCookie, NotFound)
                     ELSE Respond(q, 200, NoCookie, Deleted)]
        /\ UNCHANGED <<users, now, nextUid, nextPid, firstAuth>>

-----------------------------------------------------------------------------
(* GET /projects/explore *)

\* the $project stage over a project joined with one of its users
ExploreView(p, u) ==
    [id |-> p.id, title |-> p.title, description |-> p.description,
     tech_stack |-> p.tech_stack, deployed_link |-> p.deployed_link,
     github_link |-> p.github_link, status |-> p.status, month |-> p.month,
     created_at |-> p.created_at,
     creator_name |-> u.name, creator_picture |-> u.picture]

\* a join that keeps the projects with no user
JoinedOuter ==
    {ExploreView(projects[i], [name |-> NoStr, picture |-> NoStr]) :
        i \in 1..Len(projects)}

\* $lookup and $unwind: one document per (project, user with id = user_id)
Joined ==
    {ExploreView(projects[i], users[j]) :
        <<i, j>> \in {x \in (1..Len(projects)) \X (1..Len(users)) :
                        users[x[2]].id = projects[x[1]].user_id}}

\* the order of an ascending sort
PrecedesAscending(a, b) == a < b

\* {"$sort": {"created_at": -1}} compares the stored ISO strings, which order
\* as the instants they denote: key a comes before key b
Precedes(a, b) == a > b

\* the order of documents with equal keys is not specified: every
\* arrangement of them
Arrangements(G) ==
    {s \in [1..Cardinality(G) -> G] : \A x \in G : \E i \in DOMAIN s : s[i] = x}

\* the results of the sort for the documents of S, whose keys lie in lo..hi:
\* the documents of the keys that come first, then the others
RECURSIVE SortedRuns(_, _, _)
SortedRuns(S, lo, hi) ==
    IF S = {} THEN {<<>>}
    ELSE IF lo >= hi THEN Arrangements(S)
    ELSE LET mid == (lo + hi) \div 2
             low == {x \in S : FromIso(x.created_at) <= mid}
             lows == SortedRuns(low, lo, mid)
             highs == SortedRuns(S \ low, mid + 1, hi)
         IN  IF Precedes(hi, lo) THEN {a \o b : a \in highs, b \in lows}
             ELSE {a \o b : a \in lows, b \in highs}

\* every result the $sort stage can give for the documents of S; no document
\* is created before instant 0 or after now
Orderings(S) == SortedRuns(S, 0, now)

ParseExplore(d) == [d EXCEPT !.created_at = FromIso(@)]

\* db.projects.aggregate(pipeline).to_list(1000): the only database
\* operation of the handler
Explore(r) ==
    LET q == [IdleReq EXCEPT !.kind = "explore"]
    IN  /\ Free(r)
        /\ \E s \in Orderings(Joined) :
              LET feed == ToList(s, ListCap)
              IN  req' = [req EXCEPT ![r] =
                            Respond(q, 200, NoCookie,
                                    [i \in 1..Len(feed) |-> ParseExplore(feed[i])])]
        /\ UNCHANGED <<users, projects, now, nextUid, nextPid, firstAuth>>

-----------------------------------------------------------------------------
(* GET /dashboard *)

MonthStats(ps, m) ==
    LET month_projects == SelectSeq(ps, LAMBDA p : p.month = m)
        total == Len(month_projects)
        completed == Len(SelectSeq(month_projects, LAMBDA p : p.status = "completed"))
        in_progress == Len(SelectSeq(month_projects, LAMBDA p : p.status = "in-progress"))
    IN  [total |-> total, completed |-> completed, in_progress |-> in_progress,
         planning |-> total - completed - in_progress]

Max2(a, b) == IF a >= b THEN a ELSE b
Min2(a, b) == IF a <= b THEN a ELSE b

\* the difference without the clamp
DaysRemainingUnclamped(days) == ChallengeDays - days

\* max(0, 90 - days_elapsed)
DaysRemaining(days) == Max2(0, ChallengeDays - days)

\* min(100, (days_elapsed / 90) * 100), in units of 1/90 percent
ProgressTimes90(days) == Min2(100 * ChallengeDays, days * 100)

Dashboard(ps, days) ==
    [days_elapsed |-> days,
     days_remaining |-> DaysRemaining(days),
     challenge_progress_x90 |-> ProgressTimes90(days),
     projects |-> ps,
     month_stats |-> [m \in 1..3 |-> MonthStats(ps, m)],
     total_projects |-> Len(ps)]

\* db.projects.find({"user_id": user.id}) and the statistics
DashboardFind(r) ==
    LET q == req[r]
    IN  /\ At(r, "dashboard_find")
        /\ req' = [req EXCEPT ![r] =
                     Respond(q, 200, NoCookie,
                             Dashboard(ParseAll(ProjectsOf(q.user.id)),
                                       q.tmp))]
        /\ UNCHANGED <<users, projects, now, nextUid, nextPid, firstAuth>>

-----------------------------------------------------------------------------
(* The response leaves the server: nothing of the request is kept *)

Close(r) ==
    /\ req[r].pc = "done"
    /\ req' = [req EXCEPT ![r] = IdleReq]
    /\ UNCHANGED <<users, projects, now, nextUid, nextPid, firstAuth>>

-----------------------------------------------------------------------------
(* The specifications: requests interleave at their database operations *)

\* session ids the provider knows, with well-formed session data
GoodSessionIds == {"s1", "s2", "s3"}

\* the authentication endpoints
AuthStep(r, creds, sids, maxUsers) ==
    \/ SessionSteps(r, sids, maxUsers)
    \/ SessionUpdate(r)
    \/ SessionInsert(r)
    \/ Me(r, creds)
    \/ Logout(r, creds)
    \/ AuthDelete(r)
    \/ LogoutDelete(r)
    \/ Close(r)

\* the project endpoints that write; project ids 1..maxProjects + 1 are asked for
WriteStep(r, creds, inputs, patches, maxProjects) ==
    \/ CreateProject(r, creds, inputs, maxProjects)
    \/ ProjectInsert(r)
    \/ UpdateProject(r, creds, 1..(maxProjects + 1), patches)
    \/ UpdateFind(r)
    \/ UpdateWrite(r)
    \/ UpdateReread(r)
    \/ DeleteProject(r, creds, 1..(maxProjects + 1))
    \/ DeleteDelete(r)

\* the project endpoints that read
ReadStep(r, creds) ==
    \/ ListProjects(r, creds)
    \/ ListFind(r)
    \/ Explore(r)
    \/ GetDashboard(r, creds)
    \/ DashboardFind(r)

\* every endpoint and every input, the requests interleaved
Next ==
    \/ Tick(Instants)
    \/ \E r \in Reqs : AuthStep(r, Credentials, SessionIds, MaxUsers)
    \/ \E r \in Reqs : WriteStep(r, Credentials, CreateInputs, UpdatePatches, MaxProjects)
    \/ \E r \in Reqs : ReadStep(r, Credentials)

Spec == Init /\ [][Next]_vars

\* the authentication endpoints and every session id, one request at a time
NextSession ==
    \/ Tick(Instants)
    \/ AuthStep(1, Credentials, SessionIds, MaxUsers)

SpecSession == Init /\ [][NextSession]_vars

\* the authentication endpoints, the requests interleaved
NextAuth ==
    \/ Tick(Instants)
    \/ \E r \in Reqs : AuthStep(r, Credentials, GoodSessionIds, MaxUsers)

SpecAuth == Init /\ [][NextAuth]_vars

\* every endpoint for two accounts, one request at a time
NextSerial ==
    \/ Tick(Instants)
    \/ AuthStep(1, TwoAccounts, {"s1", "s3"}, MaxUsers)
    \/ WriteStep(1, TwoAccounts, {FirstInput}, {StatusPatch}, MaxProjects)
    \/ ReadStep(1, TwoAccounts)

SpecSerial == Init /\ [][NextSerial]_vars

\* logins, logouts and the project endpoints that write, with the sessions of
\* two accounts, the requests interleaved
NextWrites ==
    \/ Tick(LateInstants)
    \/ \E r \in Reqs : SessionSteps(r, {"s1", "s3"}, MaxUsers)
    \/ \E r \in Reqs : SessionUpdate(r)
    \/ \E r \in Reqs : SessionInsert(r)
    \/ \E r \in Reqs : Logout(r, TwoSessions)
    \/ \E r \in Reqs : AuthDelete(r)
    \/ \E r \in Reqs : LogoutDelete(r)
    \/ \E r \in Reqs : Close(r)
    \/ \E r \in Reqs : WriteStep(r, TwoSessions, {FirstInput}, {StatusPatch}, MaxRacingProjects)

SpecWrites == Init /\ [][NextWrites]_vars

\* the project endpoints with every input and every patch, for the session of
\* one account, one request at a time
OneSession == {<<"t1", NoStr>>}

NextProjects ==
    \/ Tick({SessionDays})
    \/ SessionSteps(1, {"s1"}, 1)
    \/ SessionInsert(1)
    \/ SessionUpdate(1)
    \/ Close(1)
    \/ WriteStep(1, OneSession, CreateInputs, UpdatePatches, MaxProjects)
    \/ ListProjects(1, OneSession) \/ ListFind(1)
    \/ GetDashboard(1, OneSession) \/ DashboardFind(1)

SpecProjects == Init /\ [][NextProjects]_vars

\* the days observed over a whole challenge: day 5, the last day of each
\* session when the login is renewed on that day, and the last day
ChallengeInstants ==
    {5} \cup {d \in 1..MaxDay : d % SessionDays = 0} \cup {MaxDay}

\* one account logs in again and again and asks for its dashboard over the
\* whole challenge, one request at a time
NextChallenge ==
    \/ Tick(ChallengeInstants)
    \/ SessionSteps(1, {"s1"}, MaxUsers)
    \/ SessionInsert(1)
    \/ SessionUpdate(1)
    \/ GetDashboard(1, OneSession)
    \/ DashboardFind(1)
    \/ AuthDelete(1)
    \/ Close(1)

SpecChallenge == Init /\ [][NextChallenge]_vars

\* The store after one account has created a project a day for ListCap - 1
\* or ListCap days and has just logged in again: the lists are at their cap
FullStore(n) ==
    /\ users = << UserToMongo([NewUser(1, ProviderBody("s1"), 0) EXCEPT
                                  !.expires_at = n + SessionDays]) >>
    /\ projects = [i \in 1..n |-> ProjectToMongo(NewProject(i, 1, FirstInput, i))]
    /\ now = n
    /\ nextUid = 1
    /\ nextPid = n
    /\ req = [r \in Reqs |-> IdleReq]
    /\ firstAuth = [e \in Emails |-> IF e = "a@x" THEN Some(0) ELSE None]

InitCap == \E n \in {ListCap - 1, ListCap} : FullStore(n)

\* the account goes on past the cap, one request at a time: it creates,
\* patches and deletes projects, reads its list, its dashboard and the feed,
\* logs out and logs in again as a new user
NextCap ==
    \/ SessionSteps(1, {"s1"}, MaxUsers)
    \/ SessionInsert(1)
    \/ SessionUpdate(1)
    \/ Logout(1, OneSession)
    \/ LogoutDelete(1)
    \/ Close(1)
    \/ CreateProject(1, OneSession, CreateInputs, ListCap + MaxOverCap)
    \/ ProjectInsert(1)
    \/ UpdateProject(1, OneSession, {1, ListCap + MaxOverCap}, {StatusPatch})
    \/ UpdateFind(1)
    \/ UpdateWrite(1)
    \/ UpdateReread(1)
    \/ DeleteProject(1, OneSession, {1, ListCap + MaxOverCap})
    \/ DeleteDelete(1)
    \/ ReadStep(1, OneSession)

SpecCap == InitCap /\ [][NextCap]_vars

-----------------------------------------------------------------------------
(* Vocabulary of the properties *)

\* request r takes the step
Stepped(r) == req'[r] # req[r]

\* request r arrives in the step
Arrives(r) == req[r].pc = "idle" /\ req'[r].pc # "idle"

Finished(r) == req[r].pc = "done"

AllTokens == {"t1", "t2", "t3", "tx"}

\* the endpoints behind require_auth
AuthKinds == {"me", "create_project", "list", "update", "delete", "dashboard"}

\* the first document of us holding token t, as an index (0: none)
HolderIndex(us, t) ==
    LET hits == {i \in 1..Len(us) : us[i].session_token = t}
    IN  IF t = NoStr \/ hits = {} THEN 0
        ELSE CHOOSE i \in hits : \A j \in hits : i <= j

\* the id of the user a request presenting t at instant time is served as
\* (0: none)
SessionOf(us, t, time) ==
    LET i == HolderIndex(us, t)
    IN  IF i = 0 THEN 0
        ELSE IF us[i].expires_at.iso < time THEN 0
        ELSE us[i].id

UserIds(us) == {us[i].id : i \in 1..Len(us)}

\* the step is the expiry of user u's session: the clock passes expires_at
ExpiryOf(u) ==
    \E i \in 1..Len(users) : users[i].id = u /\ users[i].expires_at.iso < now'

\* the step is the deletion of a logout of user u
LogoutOf(u) ==
    \E r \in Reqs : req[r].pc = "logout_delete" /\ Stepped(r) /\ req[r].user.id = u

\* the step is the update of a createSession for the email of user u that
\* stores a token other than t
ReplacedBy(u, t) ==
    \E r \in Reqs :
        /\ req[r].pc = "cs_update" /\ Stepped(r)
        /\ req[r].tmp.data.session_token # t
        /\ \E i \in 1..Len(users) :
              users[i].id = u /\ users[i].email = req[r].tmp.data.email

-----------------------------------------------------------------------------
(* C1 *)

\* C1: an update or a delete of a project id that belongs to another user,
\* issued with a valid session, answers 404 at its ownership lookup and
\* leaves the projects collection, the project included, as it was.
C1_CrossUserNotFound ==
    [][\A r \in Reqs :
          ( /\ req[r].pc \in {"update_find", "delete_delete"}
            /\ Stepped(r)
            /\ \E i \in 1..Len(projects) :
                  /\ projects[i].id = req[r].arg.id
                  /\ projects[i].user_id # req[r].user.id )
          => /\ req'[r].pc = "done"
             /\ req'[r].status = 404
             /\ projects' = projects]_vars

\* user B's update of user A's project was answered 404, a day on which the
\* update would have changed updated_at; both users exist
C1_Witness ==
    \E r \in Reqs : \E i \in 1..Len(projects) :
        /\ Finished(r) /\ req[r].kind = "update" /\ req[r].status = 404
        /\ projects[i].id = req[r].arg.id
        /\ projects[i].user_id # req[r].user.id
        /\ {projects[i].user_id, req[r].user.id} \subseteq UserIds(users)
        /\ projects[i].updated_at.iso < now
        /\ projects[i].status = "planning"

-----------------------------------------------------------------------------
(* C2 *)

\* C2: a token t that resolves to user u (u's record holds t and has not
\* expired) resolves to u after every step that is neither the expiry of u's
\* session nor a logout of u.  A createSession for u's email that replaces t
\* by another token, which the spec describes as the end of t, is not held
\* against the claim either.
C2_Claim ==
    [][\A t \in AllTokens :
          LET u == SessionOf(users, t, now)
          IN  (u # 0 /\ ~ExpiryOf(u) /\ ~LogoutOf(u) /\ ~ReplacedBy(u, t))
              => SessionOf(users', t, now') = u]_vars

-----------------------------------------------------------------------------
(* C3 *)

\* the tokens of the unexpired records of an email
LiveTokens(us, e, time) ==
    {us[i].session_token :
        i \in {j \in 1..Len(us) : us[j].email = e /\ ~(us[j].expires_at.iso < time)}}

\* C3: the update of a createSession for an email that has a record stores
\* the new token and the new expiry in that record, keeps its id and
\* challenge_start_date, adds no record, and leaves the previous token, when
\* it differs, with no user and the email with at most one token.
C3_Claim ==
    [][\A r \in Reqs :
          (req[r].pc = "cs_update" /\ Stepped(r))
          => LET old == req[r].tmp.existing
                 data == req[r].tmp.data
             IN  /\ \E i \in 1..Len(users') :
                       /\ users'[i].id = old.id
                       /\ users'[i].session_token = data.session_token
                       /\ users'[i].expires_at = Iso(req[r].tmp.expires_at)
                       /\ users'[i].challenge_start_date = old.challenge_start_date
                 /\ Len(users') = Len(users)
                 /\ old.session_token # data.session_token
                       => HolderIndex(users', old.session_token) = 0
                 /\ Cardinality(LiveTokens(users', data.email, now')) <= 1]_vars

-----------------------------------------------------------------------------
(* C4 *)

\* C4: a finished logout answered 200 and cleared the cookie; the record its
\* token resolved to is gone, and the token resolves to no user.
C4_Claim ==
    \A r \in Reqs :
        (Finished(r) /\ req[r].kind = "logout")
        => /\ req[r].status = 200
           /\ req[r].cookie = ClearedCookie
           /\ req[r].user.id # 0 => req[r].user.id \notin UserIds(users)
           /\ SessionOf(users, req[r].token, now) = 0

-----------------------------------------------------------------------------
(* C5 *)

\* C5: a request to an endpoint behind require_auth that carries no token, a
\* token no record holds, or the token of an expired session is answered 401
\* (after the teardown, for an expired session), and none of its steps
\* changes the projects collection.
C5_Unauthenticated ==
    [][\A r \in Reqs :
          /\ (Arrives(r) /\ req'[r].kind \in AuthKinds
                /\ SessionOf(users, req'[r].token, now) = 0)
             => /\ projects' = projects
                /\ \/ req'[r].pc = "done" /\ req'[r].status = 401
                   \/ /\ req'[r].pc = "auth_delete"
                      /\ HolderIndex(users, req'[r].token) # 0
          /\ (req[r].pc = "auth_delete" /\ Stepped(r) /\ req[r].kind \in AuthKinds)
             => /\ projects' = projects
                /\ req'[r].pc = "done" /\ req'[r].status = 401]_vars

\* a delete of an existing project with the token of an expired session was
\* answered 401 after the teardown, and the project is still there
C5_Witness ==
    \E r \in Reqs : \E i \in 1..Len(projects) :
        /\ Finished(r) /\ req[r].kind = "delete" /\ req[r].status = 401
        /\ req[r].user.id # 0
        /\ req[r].user.expires_at < now
        /\ projects[i].id = req[r].arg.id
        /\ projects[i].user_id = req[r].user.id

-----------------------------------------------------------------------------
(* C6 *)

\* C6: createSession without a session id answers 400 without calling the
\* identity provider; when the call raises or returns a status other than
\* 200 it answers 401; in both cases the users collection is unchanged and
\* no cookie is set.
C6_SessionErrors ==
    [][\A r \in Reqs :
          /\ (Arrives(r) /\ req'[r].kind = "create_session")
             => LET q == req'[r]
                IN  /\ users' = users
                    /\ q.arg = NoStr
                       => /\ q.pc = "done" /\ q.status = 400
                          /\ ~q.called
                          /\ q.cookie = NoCookie
                    /\ q.arg # NoStr => q.pc = "cs_exchange" /\ q.called
          /\ (req[r].pc = "cs_exchange" /\ Stepped(r))
             => /\ users' = users
                /\ req'[r].pc = "cs_close"
          /\ (req[r].pc = "cs_close" /\ Stepped(r))
             => LET q == req'[r]
                IN  /\ users' = users
                    /\ q.out = req[r].out
                    /\ (q.out.kind = "raise" \/ q.out.status # 200)
                       => /\ q.pc = "done" /\ q.status = 401
                          /\ q.cookie = NoCookie]_vars

\* createSession was answered 401 after the provider returned 404, with a
\* user in the collection
C6_Witness ==
    \E r \in Reqs :
        /\ Finished(r) /\ req[r].kind = "create_session" /\ req[r].status = 401
        /\ req[r].out.kind = "response" /\ req[r].out.status = 404
        /\ Len(users) > 0

-----------------------------------------------------------------------------
(* C7 *)

PayloadKeys == {"email", "name", "picture", "session_token"}

\* the provider's answer is a failure: an exception, a status other than 200,
\* a body that does not parse, or a payload lacking a key
Malformed(sid, out) ==
    \/ out.kind = "raise"
    \/ out.status # 200
    \/ ~out.parses
    \/ \E k \in PayloadKeys : ~HasKey(ProviderBody(sid), k)

\* C7: every createSession whose exchange failed, a malformed payload
\* included, was answered 401.
C7_Claim ==
    \A r \in Reqs :
        (Finished(r) /\ req[r].kind = "create_session" /\ req[r].called
            /\ Malformed(req[r].arg, req[r].out))
        => req[r].status = 401

-----------------------------------------------------------------------------
(* C8 *)

\* C8: the users collection holds at most one record per email.
C8_Claim ==
    \A i, j \in 1..Len(users) : users[i].email = users[j].email => i = j

-----------------------------------------------------------------------------
(* C9 *)

\* C9: when create_project has inserted its project, a user record with the
\* project's user_id exists.  (The insert leaves the users collection as it
\* is, so the state after the insert shows the users at the insert.)
C9_Claim ==
    \A r \in Reqs :
        (Finished(r) /\ req[r].kind = "create_project" /\ req[r].status = 200)
        => req[r].body.user_id \in UserIds(users)

-----------------------------------------------------------------------------
(* C10 *)

\* C10: the challenge_start_date a createSession or /auth/me returns for an
\* email, and the one a served request works with, is the instant of the
\* email's first login.
C10_Claim ==
    \A r \in Reqs :
        (Finished(r) /\ req[r].status = 200 /\ req[r].user.id # 0)
        => /\ req[r].user.challenge_start_date = firstAuth[req[r].user.email]
           /\ req[r].kind \in {"create_session", "me"}
                 => req[r].body.challenge_start_date = firstAuth[req[r].body.email]

-----------------------------------------------------------------------------
(* C11 *)

\* the ids of the projects whose data the response of request q carries
ReturnedIds(q, withExplore) ==
    IF q.pc # "done" \/ q.status # 200 THEN {}
    ELSE CASE q.kind \in {"list"} -> {q.body[i].id : i \in 1..Len(q.body)}
           [] q.kind = "explore" ->
                 IF withExplore THEN {q.body[i].id : i \in 1..Len(q.body)} ELSE {}
           [] q.kind = "dashboard" ->
                 {q.body.projects[i].id : i \in 1..Len(q.body.projects)}
           [] q.kind \in {"create_project", "update"} -> {q.body.id}
           [] OTHER -> {}

\* a step of request r neither returns nor changes nor deletes a project
\* that does not belong to the user the request is served as (no user, for a
\* request without a valid session)
OnlyOwn(r, withExplore) ==
    Stepped(r)
    => \A i \in 1..Len(projects) :
          projects[i].user_id # req'[r].user.id
          => /\ projects[i].id \notin ReturnedIds(req'[r], withExplore)
             /\ \E j \in 1..Len(projects') : projects'[j] = projects[i]

\* C11 as stated: no operation of the API returns, changes or deletes a
\* project on a request made without the session of the project's owner.
C11_Original ==
    [][\A r \in Reqs : OnlyOwn(r, TRUE)]_vars

\* C11, amended: no operation of the API other than the public explore feed
\* returns a project on a request made without the session of the project's
\* owner, and no operation at all changes or deletes it on such a request.
C11_Amended ==
    [][\A r \in Reqs : OnlyOwn(r, FALSE)]_vars

\* a list answered to one user with that user's project while a project of
\* another, existing user is stored
C11_Witness ==
    \E r \in Reqs :
        /\ Finished(r) /\ req[r].kind = "list" /\ req[r].status = 200
        /\ Len(req[r].body) = 1
        /\ \E i \in 1..Len(projects) :
              /\ projects[i].user_id # req[r].user.id
              /\ projects[i].user_id \in UserIds(users)

-----------------------------------------------------------------------------
(* C12 *)

\* create_project stores the input: the document appended has the id of the
\* response, the caller's id, the input's tech_stack and month, and status
\* "planning"
StoresInput(r) ==
    (req[r].pc = "project_insert" /\ Stepped(r))
    => LET d == projects'[Len(projects')]
           q == req'[r]
       IN  /\ Len(projects') = Len(projects) + 1
           /\ q.status = 200
           /\ d.id = q.body.id
           /\ d.user_id = req[r].user.id
           /\ d.tech_stack = req[r].arg.tech_stack
           /\ d.month = req[r].arg.month
           /\ d.status = "planning"

\* a step that is not the write of an update or a delete of a project keeps
\* the project's document, at its place or, after a delete, one place earlier
KeepsUntouched(r) ==
    Stepped(r)
    => \/ projects' = projects
       \/ \A i \in 1..Len(projects) :
             ~(req[r].pc \in {"update_write", "delete_delete"}
                 /\ req[r].arg.id = projects[i].id)
             => \/ i <= Len(projects') /\ projects'[i] = projects[i]
                \/ i > 1 /\ i - 1 <= Len(projects') /\ projects'[i - 1] = projects[i]

\* what the round trip compares of a stored document or of a list entry
RoundTripView(d) == <<d.id, d.user_id, d.tech_stack, d.month, d.status>>

\* the stored documents of the user request r is served as, in stored order
Mine(r) == SelectSeq(projects, LAMBDA p : p.user_id = req[r].user.id)

\* listOwn returns an entry for every stored project of the caller, with its
\* id, user_id, tech_stack, month and status
ListsAll(r) ==
    (req[r].pc = "list_find" /\ Stepped(r))
    => LET mine == Mine(r)
           body == req'[r].body
       IN  /\ req'[r].status = 200
           /\ {RoundTripView(mine[k]) : k \in 1..Len(mine)}
                 \subseteq {RoundTripView(body[k]) : k \in 1..Len(body)}

\* listOwn returns the first ListCap stored projects of the caller and no
\* other entry, each with its id, user_id, tech_stack, month and status
ListsStored(r) ==
    (req[r].pc = "list_find" /\ Stepped(r))
    => LET mine == Mine(r)
           body == req'[r].body
       IN  /\ req'[r].status = 200
           /\ Len(body) = Min2(Len(mine), ListCap)
           /\ \A k \in 1..Len(body) :
                 RoundTripView(body[k]) = RoundTripView(mine[k])

\* C12 as stated: create_project stores the input's tech_stack and month
\* with status "planning" under the caller's id; no step but an update or a
\* delete of the project changes the stored document; listOwn returns every
\* stored document of the caller unaltered.  Hence a project listed with no
\* update or delete in between comes back as created.
C12_Original ==
    [][\A r \in Reqs : StoresInput(r) /\ KeepsUntouched(r) /\ ListsAll(r)]_vars

\* C12, amended: create_project stores the input's tech_stack and month with
\* status "planning" under the caller's id; no step but an update or a delete
\* of the project changes the stored document; listOwn returns the first
\* 1000 stored documents of the caller unaltered.  Hence a project that is
\* among the caller's first 1000, listed with no update or delete in between,
\* comes back as created.
C12_RoundTrip ==
    [][\A r \in Reqs : StoresInput(r) /\ KeepsUntouched(r) /\ ListsStored(r)]_vars

\* a list of 1000 entries whose last one is the caller's thousandth project,
\* as created with a two-element tech_stack, while the caller's next
\* project, of an out-of-range month, is stored and not listed
C12_Witness ==
    \E r \in Reqs :
        /\ Finished(r) /\ req[r].kind = "list" /\ req[r].status = 200
        /\ Len(req[r].body) = ListCap
        /\ Len(projects) = ListCap + 1
        /\ req[r].body[ListCap].id = projects[ListCap].id
        /\ req[r].body[ListCap].tech_stack = <<"py", "js">>
        /\ req[r].body[ListCap].month = 1
        /\ req[r].body[ListCap].status = "planning"
        /\ req[r].body[ListCap].user_id = req[r].user.id
        /\ projects[ListCap + 1].user_id = req[r].user.id
        /\ projects[ListCap + 1].month = 5

-----------------------------------------------------------------------------
(* C13 *)

\* the value a non-null patch field k carries
PatchValue(patch, k) == IF k \in OptionalKeys THEN patch[k] ELSE patch[k][1]

\* the write of an update sets the non-null patch fields and updated_at in
\* the project and nothing else, in the project or in any other
WritesPatch(r) ==
    (req[r].pc = "update_write" /\ Stepped(r))
    => LET patch == req[r].arg.patch
       IN  /\ Len(projects') = Len(projects)
           /\ \A i \in 1..Len(projects) :
                 LET d == projects[i]
                     e == projects'[i]
                 IN  IF d.id # req[r].arg.id THEN e = d
                     ELSE /\ d.user_id = req[r].user.id
                          /\ \A k \in PatchKeys :
                                e[k] = IF patch[k] = None THEN d[k]
                                       ELSE PatchValue(patch, k)
                          /\ e.updated_at = Iso(req[r].tmp)
                          /\ req[r].tmp >= d.updated_at.iso
                          /\ e.id = d.id /\ e.user_id = d.user_id
                          /\ e.month = d.month /\ e.created_at = d.created_at

\* the response of a successful update is the stored record
ReturnsStored(r) ==
    (req[r].pc = "update_reread" /\ Stepped(r) /\ req'[r].status = 200)
    => \E i \in 1..Len(projects) :
          LET d == projects[i]
              body == req'[r].body
          IN  /\ d.id = req[r].arg.id
              /\ projects' = projects
              /\ DOMAIN body = DOMAIN d
              /\ \A k \in DOMAIN d :
                    body[k] = IF k \in {"created_at", "updated_at"}
                              THEN d[k].iso ELSE d[k]

\* C13: the write of an owner's update sets exactly the non-null patch
\* fields and updated_at; null patch fields keep the stored value; id,
\* user_id, month and created_at and every other project are unchanged; the
\* response is the stored record after the update.
C13_UpdateFrame ==
    [][\A r \in Reqs : WritesPatch(r) /\ ReturnsStored(r)]_vars

\* an update with a title, a tech_stack and a deployed_link, and no
\* github_link, was answered with the new values and the stored github_link,
\* a later updated_at, and a second project is stored
C13_Witness ==
    \E r \in Reqs :
        /\ Finished(r) /\ req[r].kind = "update" /\ req[r].status = 200
        /\ req[r].arg.patch.title = Some("Z")
        /\ req[r].arg.patch.github_link = None
        /\ req[r].body.title = "Z"
        /\ req[r].body.tech_stack = <<"go">>
        /\ req[r].body.deployed_link = Some("http")
        /\ req[r].body.github_link = Some("gh")
        /\ req[r].body.updated_at > req[r].body.created_at
        /\ Len(projects) = 2

-----------------------------------------------------------------------------
(* C14 *)

\* C14: the delete of project id p by user U removes the one project with
\* id p and user_id U's id and answers 200, after which no such project is
\* stored; when there is none it answers 404 and removes nothing; every
\* other project keeps its document and its place.
C14_DeleteExact ==
    [][\A r \in Reqs :
          (req[r].pc = "delete_delete" /\ Stepped(r))
          => LET hits == {i \in 1..Len(projects) :
                             /\ projects[i].id = req[r].arg.id
                             /\ projects[i].user_id = req[r].user.id}
             IN  /\ req'[r].pc = "done"
                 /\ hits = {}
                    => req'[r].status = 404 /\ projects' = projects
                 /\ hits # {}
                    => /\ req'[r].status = 200
                       /\ Len(projects') = Len(projects) - 1
                       /\ \E i \in hits :
                             /\ \A j \in 1..(i - 1) : projects'[j] = projects[j]
                             /\ \A j \in i..Len(projects') : projects'[j] = projects[j + 1]
                       /\ \A j \in 1..Len(projects') :
                             ~(/\ projects'[j].id = req[r].arg.id
                               /\ projects'[j].user_id = req[r].user.id)]_vars

\* a delete of the first of two stored projects was answered 200 and the
\* other project, of another user, is still stored
C14_Witness ==
    \E r \in Reqs :
        /\ Finished(r) /\ req[r].kind = "delete" /\ req[r].status = 200
        /\ req[r].arg.id = 1
        /\ Len(projects) = 1
        /\ projects[1].id = 2
        /\ projects[1].user_id # req[r].user.id

-----------------------------------------------------------------------------
(* C15 *)

\* the users with the id of project document d, as indexes
OwnersOf(d) == {j \in 1..Len(users) : users[j].id = d.user_id}

\* what the feed shows of stored project d joined with user record u
FeedView(d, u) == <<d.id, d.title, d.created_at.iso, u.name, u.picture>>

\* the views of the stored projects whose owner exists
LiveViews ==
    {FeedView(projects[x[1]], users[x[2]]) :
        x \in {y \in (1..Len(projects)) \X (1..Len(users)) :
                 y[2] \in OwnersOf(projects[y[1]])}}

\* the views of the entries of feed body
BodyViews(body) ==
    {<<body[k].id, body[k].title, body[k].created_at, body[k].creator_name,
       body[k].creator_picture>> : k \in 1..Len(body)}

\* the feed answers 200, each of its entries is a stored project whose owner
\* exists, with the owner's name and picture, no project has two entries,
\* and created_at does not increase along it
FeedSound(q) ==
    /\ q.pc = "done" /\ q.status = 200
    /\ BodyViews(q.body) \subseteq LiveViews
    /\ Cardinality({q.body[k].id : k \in 1..Len(q.body)}) = Len(q.body)
    /\ \A k \in 1..(Len(q.body) - 1) :
          q.body[k].created_at >= q.body[k + 1].created_at

\* C15 as stated: the explore feed holds no project whose user_id is the id
\* of no user record, holds each project whose owner exists exactly once,
\* with the owner's name and picture, and is in non-increasing created_at
\* order.
C15_Original ==
    [][\A r \in Reqs :
          (Arrives(r) /\ req'[r].kind = "explore")
          => /\ FeedSound(req'[r])
             /\ LiveViews \subseteq BodyViews(req'[r].body)]_vars

\* C15, amended: the explore feed holds no project whose user_id is the id
\* of no user record, holds the 1000 most recently created projects whose
\* owner exists (all of them when there are at most 1000), each exactly once
\* with the owner's name and picture, and is in non-increasing created_at
\* order.
C15_ExploreFeed ==
    [][\A r \in Reqs :
          (Arrives(r) /\ req'[r].kind = "explore")
          => LET body == req'[r].body
             IN  /\ FeedSound(req'[r])
                 /\ Len(body) = Min2(Cardinality(LiveViews), ListCap)
                 /\ \A v \in LiveViews \ BodyViews(body) :
                       v[3] <= body[Len(body)].created_at]_vars

\* an explore feed of 1000 entries, the newest first, that leaves out the
\* oldest project, whose owner exists
C15_Witness ==
    \E r \in Reqs :
        /\ Finished(r) /\ req[r].kind = "explore"
        /\ Len(req[r].body) = ListCap
        /\ Len(projects) = ListCap + 1
        /\ OwnersOf(projects[1]) # {}
        /\ \A k \in 1..ListCap : req[r].body[k].id # projects[1].id
        /\ req[r].body[1].created_at > req[r].body[ListCap].created_at

-----------------------------------------------------------------------------
(* C16 *)

\* C16: in a dashboard response days_elapsed is not negative, days_remaining
\* is max(0, 90 - days_elapsed), challenge_progress is
\* min(100, days_elapsed / 90 * 100), which lies in [0, 100], and no request
\* of an earlier day computes a greater progress.  (challenge_progress_x90
\* is the progress in units of 1/90 percent.)
C16_Progress ==
    \A r \in Reqs :
        (Finished(r) /\ req[r].kind = "dashboard" /\ req[r].status = 200)
        => LET body == req[r].body
               days == body.days_elapsed
           IN  /\ days >= 0
               /\ body.days_remaining = (IF days <= 90 THEN 90 - days ELSE 0)
               /\ body.days_remaining >= 0
               /\ body.challenge_progress_x90 =
                     (IF days >= 90 THEN 100 * 90 ELSE 100 * days)
               /\ body.challenge_progress_x90 \in 0..(100 * 90)
               /\ \A d \in 0..days :
                     ProgressTimes90(d) <= body.challenge_progress_x90

\* a dashboard served 91 days after the start: nothing remains and the
\* progress is 100
C16_Witness ==
    \E r \in Reqs :
        /\ Finished(r) /\ req[r].kind = "dashboard" /\ req[r].status = 200
        /\ req[r].body.days_elapsed = 91
        /\ req[r].body.days_remaining = 0
        /\ req[r].body.challenge_progress_x90 = 100 * 90

-----------------------------------------------------------------------------
(* C17 *)

\* C17: when createSession has answered 200 with token t for email e, a user
\* record with email e and session_token t is stored.  (The response follows
\* the last write of the handler in the same step.)
C17_Claim ==
    \A r \in Reqs :
        (Finished(r) /\ req[r].kind = "create_session" /\ req[r].status = 200)
        => \E i \in 1..Len(users) :
              /\ users[i].email = req[r].body.email
              /\ users[i].session_token = req[r].cookie[2]

-----------------------------------------------------------------------------
(* C18 *)

\* C18: an update issued with a valid session ends with 200 or with 404.
C18_Claim ==
    \A r \in Reqs :
        (Finished(r) /\ req[r].kind = "update" /\ req[r].status # 401)
        => req[r].status \in {200, 404}

-----------------------------------------------------------------------------
(* C19 *)

\* project document d is of a user that has no record
Orphan(d) == d.user_id \notin UserIds(users)

\* C19: the deletion of a user record by logout or by the teardown of an
\* expired session leaves the projects collection as it is; a project whose
\* user has no record is returned by no response, explore included, and is
\* changed or deleted by no step of a request served as another user or as
\* none, also after a new login with the same email.
C19_OrphansKept ==
    [][\A r \in Reqs :
          /\ (req[r].pc \in {"logout_delete", "auth_delete"} /\ Stepped(r))
             => /\ projects' = projects
                /\ req[r].user.id \notin UserIds(users')
          /\ Stepped(r)
             => \A i \in 1..Len(projects) :
                   (Orphan(projects[i]) /\ req'[r].user.id # projects[i].user_id)
                   => /\ projects[i].id \notin ReturnedIds(req'[r], TRUE)
                      /\ \E j \in 1..Len(projects') : projects'[j] = projects[i]]_vars

\* after a logout and a new login with the same email, the list of the new
\* user is empty while the project of the deleted user is stored
C19_Witness ==
    \E r \in Reqs :
        /\ Finished(r) /\ req[r].kind = "list" /\ req[r].status = 200
        /\ req[r].body = <<>>
        /\ \E i \in 1..Len(projects) :
              /\ Orphan(projects[i])
              /\ firstAuth[req[r].user.email] # None
              /\ projects[i].created_at.iso < req[r].user.challenge_start_date[1]

-----------------------------------------------------------------------------
(* C20 *)

\* C20: in a dashboard response total_projects is the sum of the totals of
\* the three months, and in each month completed + in_progress + planning is
\* the total, none of the four negative.
C20_Claim ==
    \A r \in Reqs :
        (Finished(r) /\ req[r].kind = "dashboard" /\ req[r].status = 200)
        => LET stats == req[r].body.month_stats
           IN  /\ req[r].body.total_projects =
                     stats[1].total + stats[2].total + stats[3].total
               /\ \A m \in 1..3 :
                     /\ stats[m].completed + stats[m].in_progress + stats[m].planning
                           = stats[m].total
                     /\ stats[m].total >= 0 /\ stats[m].completed >= 0
                     /\ stats[m].in_progress >= 0 /\ stats[m].planning >= 0

=============================================================================
